---------------------------- MODULE Spec2Model ----------------------------
(***************************************************************************)
(* Model of the JSONCoding plugin of remodel                               *)
(* (src/plugins/JSONCodingPlugin.ts).  The plugin is a set of pure hooks   *)
(* over an ObjectSpec.Type; the state machine below holds one object type  *)
(* and records the last hook the host called together with what it         *)
(* returned.  Generated source text is modelled as real strings, built     *)
(* with the same concatenations as the TypeScript code.                    *)
(***************************************************************************)
EXTENDS Integers, Sequences, FiniteSets, TLC

VARIABLES
  objectType,   \* the ObjectSpec.Type handed to the hooks
  coding,       \* shape of the statements CodingUtils returns (collaborator)
  copyRule,     \* which types the should-copy helper wants copied (collaborator)
  hook,         \* name of the last hook called by the host
  arg,          \* argument of the last transform* hook
  result        \* what the last hook returned

vars == <<objectType, coding, copyRule, hook, arg, result>>

(***************************************************************************)
(* Bounds                                                                  *)
(***************************************************************************)
MaxFields == 2

(***************************************************************************)
(* Maybe, null, exceptions                                                 *)
(***************************************************************************)
Nothing == [just |-> FALSE]
Just(v) == [just |-> TRUE, value |-> v]

null == [null |-> TRUE]

Returned(v) == [threw |-> FALSE, value |-> v]
TypeError == [threw |-> TRUE]

(***************************************************************************)
(* String helpers                                                          *)
(***************************************************************************)
Contains(s, sub) ==
  \E i \in 1..(Len(s) - Len(sub) + 1) : SubSeq(s, i, i + Len(sub) - 1) = sub

StartsWith(s, p) == Len(s) >= Len(p) /\ SubSeq(s, 1, Len(p)) = p

EndsWith(s, p) == Len(s) >= Len(p) /\ SubSeq(s, Len(s) - Len(p) + 1, Len(s)) = p

(***************************************************************************)
(* Type model of the schema (collaborators of the plugin)                  *)
(***************************************************************************)
ScalarTypeNames ==
  {"id", "BOOL", "NSInteger", "NSUInteger", "double", "float", "CGFloat",
   "NSTimeInterval", "uintptr_t", "uint32_t", "uint64_t", "int32_t",
   "int64_t", "SEL", "NSRange", "CGRect", "CGPoint", "CGSize",
   "UIEdgeInsets", "Class", "dispatch_block_t"}

BoxedNumberTypes ==
  {"BOOL", "NSInteger", "NSUInteger", "double", "float", "CGFloat",
   "NSTimeInterval", "uint32_t", "uint64_t", "int32_t", "int64_t"}

ObjectTypeNames == {"NSString", "NSArray", "NSSet", "NSDictionary", "NSURL"}

ScalarType(n) == [name |-> n, reference |-> n, underlyingType |-> Nothing]

ObjectTypeDescriptor(n) ==
  [name |-> n, reference |-> n \o " *", underlyingType |-> Nothing]

EnumType ==
  [name |-> "MyEnum", reference |-> "MyEnum", underlyingType |-> Just("NSUInteger")]

CustomType ==
  [name |-> "CustomOpaqueType", reference |-> "CustomOpaqueType",
   underlyingType |-> Nothing]

CustomBackedType ==
  [name |-> "CustomOpaqueType", reference |-> "CustomOpaqueType",
   underlyingType |-> Just("LegacyBlob")]

AllTypes ==
  {ScalarType(n) : n \in ScalarTypeNames}
    \cup {ObjectTypeDescriptor(n) : n \in ObjectTypeNames}
    \cup {EnumType, CustomType, CustomBackedType}

CoreTypes ==
  {ObjectTypeDescriptor("NSString"), ScalarType("BOOL"), ScalarType("CGRect"),
   CustomType, CustomBackedType}

TableTypes ==
  {ScalarType(n) : n \in BoxedNumberTypes}
    \cup {ObjectTypeDescriptor(n) : n \in ObjectTypeNames}

AttributeNames == {"flag", "count"}

Attributes(types) == [name : AttributeNames, type : types]

\* ObjectSpecCodeUtils.computeTypeOfAttribute: the underlying type when the
\* declared type has one, the declared type otherwise.
computeTypeOfAttribute(attribute) ==
  IF attribute.type.underlyingType.just
    THEN [name |-> attribute.type.underlyingType.value,
          reference |-> attribute.type.underlyingType.value]
    ELSE [name |-> attribute.type.name, reference |-> attribute.type.reference]

\* ObjCTypeUtils.matchType: the name of the matcher that is invoked.
matchType(type) ==
  IF type.name \in ScalarTypeNames THEN type.name
  ELSE IF EndsWith(type.reference, "*") THEN "NSObject"
  ELSE "unmatchedType"

\* ObjectSpecUtils.typeSupportsValueObjectSemantics
typeSupportsValueObjectSemantics(ot) == "RMValueObjectSemantics" \in ot.includes

\* ObjectSpecCodeUtils.shouldCopyIncomingValueForAttribute
shouldCopyIncomingValueForAttribute(supportsValueSemantics, attribute) ==
  /\ supportsValueSemantics
  /\ \/ copyRule = "all"
     \/ copyRule = "objects" /\ matchType(computeTypeOfAttribute(attribute)) = "NSObject"

\* CodingUtils.codingStatementsForType: null for a type it does not know.
codingStatementsForType(type) ==
  IF matchType(type) = "unmatchedType" THEN null
  ELSE [encodeValueStatementGenerator |-> coding,
        decodeValueStatementGenerator |-> coding]

encodeValueStatementGenerator(codingStatements, valueAccessor) ==
  IF codingStatements.encodeValueStatementGenerator = "direct"
    THEN valueAccessor
    ELSE "EncodedValue(" \o valueAccessor \o ")"

decodeValueStatementGenerator(codingStatements, decodedValueCode) ==
  IF codingStatements.decodeValueStatementGenerator = "direct"
    THEN decodedValueCode
    ELSE "DecodedValue(" \o decodedValueCode \o ")"

\* Coding.codingAttributeForValueAttribute
codingAttributeForValueAttribute(attribute) ==
  [name |-> attribute.name, type |-> computeTypeOfAttribute(attribute)]

\* StringUtils.indent
indent(spaces, str) == (IF spaces = 2 THEN "  " ELSE "") \o str

(***************************************************************************)
(* JSONCodingPlugin.ts: generators                                         *)
(***************************************************************************)
dictionaryWrappingDirectly(attributeName) == attributeName

dictionaryWrappingAmpersand(attributeName) == "@(" \o attributeName \o ")"

dictionaryUnwrappingDirectly(attributeName) == attributeName

dictionaryUnwrappingByKeyword(unwrappingKeyword, attributeName) ==
  "[" \o attributeName \o " " \o unwrappingKeyword \o "]"

nonnullValueGeneratorWithDefaultValue(defaultValue, attributeName) ==
  attributeName \o " ?: " \o defaultValue

originalValueGenerator(attributeName) == attributeName

\* Generators are closures in the source; here a closure is a record naming
\* the function and its captured argument, and Apply calls it.
Directly == [fn |-> "dictionaryWrappingDirectly", captured |-> ""]
Ampersand == [fn |-> "dictionaryWrappingAmpersand", captured |-> ""]
UnwrapDirectly == [fn |-> "dictionaryUnwrappingDirectly", captured |-> ""]
ByKeyword(k) == [fn |-> "dictionaryUnwrappingByKeyword", captured |-> k]
WithDefaultValue(d) == [fn |-> "nonnullValueGeneratorWithDefaultValue", captured |-> d]
Original == [fn |-> "originalValueGenerator", captured |-> ""]

Apply(generator, attributeName) ==
  CASE generator.fn = "dictionaryWrappingDirectly" ->
         dictionaryWrappingDirectly(attributeName)
    [] generator.fn = "dictionaryWrappingAmpersand" ->
         dictionaryWrappingAmpersand(attributeName)
    [] generator.fn = "dictionaryUnwrappingDirectly" ->
         dictionaryUnwrappingDirectly(attributeName)
    [] generator.fn = "dictionaryUnwrappingByKeyword" ->
         dictionaryUnwrappingByKeyword(generator.captured, attributeName)
    [] generator.fn = "nonnullValueGeneratorWithDefaultValue" ->
         nonnullValueGeneratorWithDefaultValue(generator.captured, attributeName)
    [] generator.fn = "originalValueGenerator" ->
         originalValueGenerator(attributeName)

ParsingFunction(w, u, n) ==
  [keyWrappingGenerator |-> w, keyUnwrappingGenerator |-> u,
   nonnullValueGenerator |-> n]

defaultParsingFunction == ParsingFunction(Directly, UnwrapDirectly, Original)

\* mutant: NSString is not singled out and gets the null sentinel
NSObjectParsingFunction_StringAsOther(typeName) ==
  IF typeName = "NSArray"
    THEN ParsingFunction(Directly, UnwrapDirectly, WithDefaultValue("@[]"))
  ELSE IF typeName = "NSSet"
    THEN ParsingFunction(Directly, UnwrapDirectly, WithDefaultValue("[NSSet new]"))
  ELSE IF typeName = "NSDictionary"
    THEN ParsingFunction(Directly, UnwrapDirectly, WithDefaultValue("@{}"))
  ELSE ParsingFunction(Directly, UnwrapDirectly, WithDefaultValue("[NSNull null]"))

\* mutant: the NSDictionary branch is a copy of the NSArray branch
NSObjectParsingFunction_DictionaryAsArray(typeName) ==
  IF typeName = "NSString"
    THEN ParsingFunction(Directly, UnwrapDirectly, WithDefaultValue("@\"\""))
  ELSE IF typeName = "NSArray"
    THEN ParsingFunction(Directly, UnwrapDirectly, WithDefaultValue("@[]"))
  ELSE IF typeName = "NSSet"
    THEN ParsingFunction(Directly, UnwrapDirectly, WithDefaultValue("[NSSet new]"))
  ELSE IF typeName = "NSDictionary"
    THEN ParsingFunction(Directly, UnwrapDirectly, WithDefaultValue("@[]"))
  ELSE ParsingFunction(Directly, UnwrapDirectly, WithDefaultValue("[NSNull null]"))

NSObjectParsingFunction(typeName) ==
  IF typeName = "NSString"
    THEN ParsingFunction(Directly, UnwrapDirectly, WithDefaultValue("@\"\""))
  ELSE IF typeName = "NSArray"
    THEN ParsingFunction(Directly, UnwrapDirectly, WithDefaultValue("@[]"))
  ELSE IF typeName = "NSSet"
    THEN ParsingFunction(Directly, UnwrapDirectly, WithDefaultValue("[NSSet new]"))
  ELSE IF typeName = "NSDictionary"
    THEN ParsingFunction(Directly, UnwrapDirectly, WithDefaultValue("@{}"))
  ELSE ParsingFunction(Directly, UnwrapDirectly, WithDefaultValue("[NSNull null]"))

NumberParsingFunction(unwrappingKeyword) ==
  ParsingFunction(Ampersand, ByKeyword(unwrappingKeyword), Original)

\* mutant: uint64_t is read with the 32-bit accessor
unwrappingKeywordOf_Uint64As32(matched) ==
  CASE matched = "BOOL" -> "boolValue"
    [] matched = "NSInteger" -> "integerValue"
    [] matched = "NSUInteger" -> "unsignedIntegerValue"
    [] matched = "double" -> "doubleValue"
    [] matched = "float" -> "floatValue"
    [] matched = "CGFloat" -> "floatValue"
    [] matched = "NSTimeInterval" -> "doubleValue"
    [] matched = "uint32_t" -> "unsignedIntValue"
    [] matched = "uint64_t" -> "unsignedIntValue"
    [] matched = "int32_t" -> "intValue"
    [] matched = "int64_t" -> "longLongValue"

\* mutant: NSTimeInterval is read with the integer accessor
unwrappingKeywordOf_TimeIntervalAsInteger(matched) ==
  CASE matched = "BOOL" -> "boolValue"
    [] matched = "NSInteger" -> "integerValue"
    [] matched = "NSUInteger" -> "unsignedIntegerValue"
    [] matched = "double" -> "doubleValue"
    [] matched = "float" -> "floatValue"
    [] matched = "CGFloat" -> "floatValue"
    [] matched = "NSTimeInterval" -> "integerValue"
    [] matched = "uint32_t" -> "unsignedIntValue"
    [] matched = "uint64_t" -> "unsignedLongLongValue"
    [] matched = "int32_t" -> "intValue"
    [] matched = "int64_t" -> "longLongValue"

unwrappingKeywordOf(matched) ==
  CASE matched = "BOOL" -> "boolValue"
    [] matched = "NSInteger" -> "integerValue"
    [] matched = "NSUInteger" -> "unsignedIntegerValue"
    [] matched = "double" -> "doubleValue"
    [] matched = "float" -> "floatValue"
    [] matched = "CGFloat" -> "floatValue"
    [] matched = "NSTimeInterval" -> "doubleValue"
    [] matched = "uint32_t" -> "unsignedIntValue"
    [] matched = "uint64_t" -> "unsignedLongLongValue"
    [] matched = "int32_t" -> "intValue"
    [] matched = "int64_t" -> "longLongValue"

dictionaryParsingFunction(attribute) ==
  LET type == computeTypeOfAttribute(attribute)
      matched == matchType(type)
  IN  IF matched = "unmatchedType" THEN null
      ELSE IF matched = "NSObject" THEN NSObjectParsingFunction(attribute.type.name)
      ELSE IF matched \in BoxedNumberTypes
        THEN NumberParsingFunction(unwrappingKeywordOf(matched))
      ELSE defaultParsingFunction

safeWrapEncodingStatement(parsingFunction, encodingStatement) ==
  IF parsingFunction # null
    THEN Apply(parsingFunction.nonnullValueGenerator,
               Apply(parsingFunction.keyWrappingGenerator, encodingStatement))
    ELSE encodingStatement

toIvarKeyValuePair(attribute) ==
  LET codeableAttribute == codingAttributeForValueAttribute(attribute)
      codingStatements == codingStatementsForType(codeableAttribute.type)
      iVar == "_" \o attribute.name
      encodingStatement ==
        IF codingStatements # null
          THEN encodeValueStatementGenerator(codingStatements, iVar)
          ELSE iVar
      parsingFunction == dictionaryParsingFunction(attribute)
      wrapped == safeWrapEncodingStatement(parsingFunction, encodingStatement)
      keyName == attribute.name
  IN  "dict[@\"" \o keyName \o "\"] = " \o wrapped \o ";"

Map(f(_), s) == [i \in 1..Len(s) |-> f(s[i])]

\* mutant: the encode lines are emitted in reverse declaration order
instanceToDictionaryConverter_Reversed(attributes) ==
  <<"NSMutableDictionary *dict = [[NSMutableDictionary alloc] init];">>
    \o [i \in 1..Len(attributes) |->
          toIvarKeyValuePair(attributes[Len(attributes) + 1 - i])]
    \o <<"return [dict copy];">>

instanceToDictionaryConverter(attributes) ==
  <<"NSMutableDictionary *dict = [[NSMutableDictionary alloc] init];">>
    \o Map(toIvarKeyValuePair, attributes)
    \o <<"return [dict copy];">>


instanceToDictionaryMethod(attributes) ==
  [preprocessors |-> <<>>,
   belongsToProtocol |-> Nothing,
   code |-> instanceToDictionaryConverter(attributes),
   comments |-> <<>>,
   compilerAttributes |-> <<>>,
   keywords |-> <<[name |-> "toJsonDictionary", argument |-> Nothing]>>,
   returnType |->
     [type |-> Just([name |-> "NSDictionary *", reference |-> "NSDictionary *"]),
      modifiers |-> <<>>]]

safeUnwrapDecodingStatement(parsingFunction, decodingStatement) ==
  IF parsingFunction # null
    THEN Apply(parsingFunction.keyUnwrappingGenerator, decodingStatement)
    ELSE decodingStatement

\* mutant: the incoming value is copied before the per-type decoder runs
toIvarAssignment_CopyBeforeDecode(supportsValueSemantics, attribute) ==
  LET codeableAttribute == codingAttributeForValueAttribute(attribute)
      codingStatements == codingStatementsForType(codeableAttribute.type)
      keyName == attribute.name
      raw == "dictionary[@\"" \o keyName \o "\"]"
      parsingFunction == dictionaryParsingFunction(attribute)
      unwrapped == safeUnwrapDecodingStatement(parsingFunction, raw)
      shouldCopy ==
        shouldCopyIncomingValueForAttribute(supportsValueSemantics, attribute)
      copied == IF shouldCopy THEN "[" \o unwrapped \o " copy]" ELSE unwrapped
      decoded == decodeValueStatementGenerator(codingStatements, copied)
  IN  IF codingStatements = null
        THEN TypeError
        ELSE Returned("_" \o attribute.name \o " = " \o decoded \o ";")

\* Returned(line), or TypeError when codingStatements is null: the source reads
\* codingStatements.decodeValueStatementGenerator without a null test.
toIvarAssignment(supportsValueSemantics, attribute) ==
  LET codeableAttribute == codingAttributeForValueAttribute(attribute)
      codingStatements == codingStatementsForType(codeableAttribute.type)
      keyName == attribute.name
      raw == "dictionary[@\"" \o keyName \o "\"]"
      parsingFunction == dictionaryParsingFunction(attribute)
      unwrapped == safeUnwrapDecodingStatement(parsingFunction, raw)
      decoded == decodeValueStatementGenerator(codingStatements, unwrapped)
      shouldCopy ==
        shouldCopyIncomingValueForAttribute(supportsValueSemantics, attribute)
      copied == IF shouldCopy THEN "[" \o decoded \o " copy]" ELSE decoded
  IN  IF codingStatements = null
        THEN TypeError
        ELSE Returned("_" \o attribute.name \o " = " \o copied \o ";")

dictionaryToInstanceInitializer(supportsValueSemantics, attributes) ==
  LET assignments ==
        [i \in 1..Len(attributes) |->
           toIvarAssignment(supportsValueSemantics, attributes[i])]
  IN  IF \E i \in 1..Len(attributes) : assignments[i].threw
        THEN TypeError
        ELSE Returned(
               <<"if ((self = [super init])) {">>
                 \o [i \in 1..Len(attributes) |-> indent(2, assignments[i].value)]
                 \o <<"}", "return self;">>)

dictionaryToInstanceMethod(supportsValueSemantics, attributes) ==
  LET code == dictionaryToInstanceInitializer(supportsValueSemantics, attributes)
  IN  IF code.threw
        THEN TypeError
        ELSE Returned(
          [preprocessors |-> <<>>,
           belongsToProtocol |-> Just("NSString"),
           code |-> code.value,
           comments |-> <<>>,
           compilerAttributes |-> <<>>,
           keywords |->
             <<[name |-> "initWithJSONDictionary",
                argument |->
                  Just([name |-> "dictionary",
                        modifiers |-> <<>>,
                        type |-> [name |-> "NSDictionary *",
                                  reference |-> "NSDictionary *"]])]>>,
           returnType |->
             [type |-> Just([name |-> "instancetype", reference |-> "instancetype"]),
              modifiers |-> <<>>]])

doesValueAttributeContainAnUnsupportedType(attribute) ==
  dictionaryParsingFunction(attribute) = null

\* mutant: the underlying type is never looked at
valueAttributeToUnsupportedTypeError_DeclaredOnly(ot, attribute) ==
  "The JSONCoding plugin does not know how to decode and encode the type \""
    \o attribute.type.name \o "\" from " \o ot.typeName
    \o "." \o attribute.name \o ". " \o attribute.type.name
    \o " is not supported."

valueAttributeToUnsupportedTypeError(ot, attribute) ==
  IF attribute.type.underlyingType.just
    THEN "The JSONCoding plugin does not know how to decode and encode the backing type \""
           \o attribute.type.underlyingType.value \o "\" from " \o ot.typeName
           \o "." \o attribute.name \o ". " \o attribute.type.name
           \o " is not supported."
    ELSE "The JSONCoding plugin does not know how to decode and encode the type \""
           \o attribute.type.name \o "\" from " \o ot.typeName
           \o "." \o attribute.name \o ". " \o attribute.type.name
           \o " is not supported."

(***************************************************************************)
(* JSONCodingPlugin.ts: the hooks of createPlugin                          *)
(***************************************************************************)
additionalFiles(ot) == <<>>

transformBaseFile(ot, baseFile) == baseFile

additionalTypes(ot) == <<>>

\* mutant: the serializer is also contributed as a class method
classMethods_Serializer(ot) == <<instanceToDictionaryMethod(ot.attributes)>>

classMethods(ot) == <<>>

transformFileRequest(request) == request

attributes(ot) == <<>>

fileType(ot) == Nothing

forwardDeclarations(ot) == <<>>

functions(ot) == <<>>

headerComments(ot) == <<>>

implementedProtocols(ot) == <<>>

imports(ot) == <<>>

instanceMethods(ot) ==
  LET supportsValueSemantics == typeSupportsValueObjectSemantics(ot)
      serializer == instanceToDictionaryMethod(ot.attributes)
      initializer == dictionaryToInstanceMethod(supportsValueSemantics, ot.attributes)
  IN  IF initializer.threw
        THEN TypeError
        ELSE Returned(<<serializer, initializer.value>>)

properties(ot) == <<>>

requiredIncludesToRun == <<"JSONCoding">>

staticConstants(ot) == <<>>

Filter(s, keep(_)) ==
  LET kept[i \in 0..Len(s)] ==
        IF i = 0 THEN <<>>
        ELSE IF keep(s[i]) THEN Append(kept[i - 1], s[i])
        ELSE kept[i - 1]
  IN  kept[Len(s)]

\* mutant: validation stops at the first unsupported attribute
validationErrors_FailFast(ot) ==
  LET toError(attribute) == valueAttributeToUnsupportedTypeError(ot, attribute)
      all == Map(toError,
                 Filter(ot.attributes, doesValueAttributeContainAnUnsupportedType))
  IN  IF all = <<>> THEN <<>> ELSE <<all[1]>>

validationErrors(ot) ==
  LET toError(attribute) == valueAttributeToUnsupportedTypeError(ot, attribute)
  IN  Map(toError, Filter(ot.attributes, doesValueAttributeContainAnUnsupportedType))

macros(valueType) == <<>>

nullability(ot) == Nothing

subclassingRestricted(ot) == FALSE

(***************************************************************************)
(* The host: it holds one object type and calls the hooks in any order.    *)
(***************************************************************************)
Schemas(types, n) == UNION {[1..k -> Attributes(types)] : k \in 0..n}

Pairs(types) ==
  {<<a, b>> : a \in [name : {"flag"}, type : types],
              b \in [name : {"count"}, type : types]}

\* Schemas are: up to MaxFields attributes over CoreTypes, any single attribute
\* over AllTypes, and any two attributes over the boxed and object types.

ObjectTypes ==
  [typeName : {"Foo"},
   includes : {{}, {"RMValueObjectSemantics"}},
   attributes : Schemas(CoreTypes, MaxFields) \cup Schemas(AllTypes, 1)
                  \cup Pairs(TableTypes)]

Files == {"Foo.h", "Foo.m"}

Init ==
  /\ objectType \in ObjectTypes
  /\ coding \in {"direct", "converted"}
  /\ copyRule \in {"none", "objects", "all"}
  /\ hook = "none"
  /\ arg = Nothing
  /\ result = Nothing

Inputs == <<objectType, coding, copyRule>>

AdditionalFiles ==
  /\ hook' = "additionalFiles"
  /\ arg' = Nothing
  /\ result' = Returned(additionalFiles(objectType))
  /\ UNCHANGED Inputs

TransformBaseFile ==
  \E baseFile \in Files :
    /\ hook' = "transformBaseFile"
    /\ arg' = Just(baseFile)
    /\ result' = Returned(transformBaseFile(objectType, baseFile))
    /\ UNCHANGED Inputs

AdditionalTypes ==
  /\ hook' = "additionalTypes"
  /\ arg' = Nothing
  /\ result' = Returned(additionalTypes(objectType))
  /\ UNCHANGED Inputs

ClassMethods ==
  /\ hook' = "classMethods"
  /\ arg' = Nothing
  /\ result' = Returned(classMethods(objectType))
  /\ UNCHANGED Inputs

TransformFileRequest ==
  \E request \in Files :
    /\ hook' = "transformFileRequest"
    /\ arg' = Just(request)
    /\ result' = Returned(transformFileRequest(request))
    /\ UNCHANGED Inputs

AttributesHook ==
  /\ hook' = "attributes"
  /\ arg' = Nothing
  /\ result' = Returned(attributes(objectType))
  /\ UNCHANGED Inputs

FileType ==
  /\ hook' = "fileType"
  /\ arg' = Nothing
  /\ result' = Returned(fileType(objectType))
  /\ UNCHANGED Inputs

ForwardDeclarations ==
  /\ hook' = "forwardDeclarations"
  /\ arg' = Nothing
  /\ result' = Returned(forwardDeclarations(objectType))
  /\ UNCHANGED Inputs

Functions ==
  /\ hook' = "functions"
  /\ arg' = Nothing
  /\ result' = Returned(functions(objectType))
  /\ UNCHANGED Inputs

HeaderComments ==
  /\ hook' = "headerComments"
  /\ arg' = Nothing
  /\ result' = Returned(headerComments(objectType))
  /\ UNCHANGED Inputs

ImplementedProtocols ==
  /\ hook' = "implementedProtocols"
  /\ arg' = Nothing
  /\ result' = Returned(implementedProtocols(objectType))
  /\ UNCHANGED Inputs

Imports ==
  /\ hook' = "imports"
  /\ arg' = Nothing
  /\ result' = Returned(imports(objectType))
  /\ UNCHANGED Inputs

InstanceMethods ==
  /\ hook' = "instanceMethods"
  /\ arg' = Nothing
  /\ result' = instanceMethods(objectType)
  /\ UNCHANGED Inputs

Properties ==
  /\ hook' = "properties"
  /\ arg' = Nothing
  /\ result' = Returned(properties(objectType))
  /\ UNCHANGED Inputs

RequiredIncludesToRun ==
  /\ hook' = "requiredIncludesToRun"
  /\ arg' = Nothing
  /\ result' = Returned(requiredIncludesToRun)
  /\ UNCHANGED Inputs

StaticConstants ==
  /\ hook' = "staticConstants"
  /\ arg' = Nothing
  /\ result' = Returned(staticConstants(objectType))
  /\ UNCHANGED Inputs

ValidationErrors ==
  /\ hook' = "validationErrors"
  /\ arg' = Nothing
  /\ result' = Returned(validationErrors(objectType))
  /\ UNCHANGED Inputs

Macros ==
  /\ hook' = "macros"
  /\ arg' = Nothing
  /\ result' = Returned(macros(objectType))
  /\ UNCHANGED Inputs

Nullability ==
  /\ hook' = "nullability"
  /\ arg' = Nothing
  /\ result' = Returned(nullability(objectType))
  /\ UNCHANGED Inputs

SubclassingRestricted ==
  /\ hook' = "subclassingRestricted"
  /\ arg' = Nothing
  /\ result' = Returned(subclassingRestricted(objectType))
  /\ UNCHANGED Inputs

Next ==
  \/ AdditionalFiles
  \/ TransformBaseFile
  \/ AdditionalTypes
  \/ ClassMethods
  \/ TransformFileRequest
  \/ AttributesHook
  \/ FileType
  \/ ForwardDeclarations
  \/ Functions
  \/ HeaderComments
  \/ ImplementedProtocols
  \/ Imports
  \/ InstanceMethods
  \/ Properties
  \/ RequiredIncludesToRun
  \/ StaticConstants
  \/ ValidationErrors
  \/ Macros
  \/ Nullability
  \/ SubclassingRestricted

Spec == Init /\ [][Next]_vars

(***************************************************************************)
(* Vocabulary of the properties                                            *)
(***************************************************************************)
N == Len(objectType.attributes)

Attr(i) == objectType.attributes[i]

Matched(i) == matchType(computeTypeOfAttribute(Attr(i)))

Unmatched == {i \in 1..N : Matched(i) = "unmatchedType"}

Generated == hook = "instanceMethods" /\ ~result.threw

SerializerCode == result.value[1].code

InitializerCode == result.value[2].code

EncodeLine(i) == SerializerCode[i + 1]

DecodeLine(i) == InitializerCode[i + 1]

IndexOf(s, pat) ==
  CHOOSE i \in 1..(Len(s) - Len(pat) + 1) :
    /\ SubSeq(s, i, i + Len(pat) - 1) = pat
    /\ \A j \in 1..(i - 1) : SubSeq(s, j, j + Len(pat) - 1) # pat

After(s, pat) == SubSeq(s, IndexOf(s, pat) + Len(pat), Len(s))

Before(s, pat) == SubSeq(s, 1, IndexOf(s, pat) - 1)

Key(name) == "[@\"" \o name \o "\"]"

\* the accessor a decode line sends to the map entry, read off the text
AccessorOf(line, name) == Before(After(line, "dictionary" \o Key(name) \o " "), "]")

\* the literal an encode line substitutes for an absent value, read off the text
DefaultOf(line) == Before(After(line, " ?: "), ";")

IntegerLike ==
  {"BOOL", "NSInteger", "NSUInteger", "uint32_t", "uint64_t", "int32_t", "int64_t"}

FloatingPoint == {"double", "float", "CGFloat", "NSTimeInterval"}

IdentityVariants ==
  {"id", "uintptr_t", "SEL", "NSRange", "CGRect", "CGPoint", "CGSize",
   "UIEdgeInsets", "Class", "dispatch_block_t"}

\* the k-th unmatched attribute, in declaration order
KthUnmatched(k) ==
  CHOOSE i \in Unmatched : Cardinality({j \in Unmatched : j <= i}) = k

(***************************************************************************)
(* C1: for every schema, valid or not, instanceMethods returns exactly two *)
(* descriptors, toJsonDictionary first and initWithJSONDictionary second,  *)
(* and never fails to return.                                              *)
(***************************************************************************)
C1_AlwaysTwoMethods ==
  hook = "instanceMethods" =>
    /\ ~result.threw
    /\ Len(result.value) = 2
    /\ result.value[1].keywords[1].name = "toJsonDictionary"
    /\ result.value[2].keywords[1].name = "initWithJSONDictionary"

(***************************************************************************)
(* C2: validationErrors holds exactly one error per unmatched field and    *)
(* none for any other field (whose variant always has a strategy); all     *)
(* offending fields are reported, in declaration order, and the list is    *)
(* empty exactly when no field is unmatched.                               *)
(***************************************************************************)
C2_OneErrorPerUnmatchedField ==
  hook = "validationErrors" =>
    LET errors == result.value
    IN  /\ ~result.threw
        /\ Len(errors) = Cardinality(Unmatched)
        /\ (errors = <<>>) <=> (Unmatched = {})
        /\ \A i \in 1..N :
             (dictionaryParsingFunction(Attr(i)) = null) <=> (i \in Unmatched)
        /\ \A k \in 1..Len(errors) :
             LET a == Attr(KthUnmatched(k))
             IN  /\ Contains(errors[k], "." \o a.name \o ". ")
                 /\ Contains(errors[k], "\"" \o computeTypeOfAttribute(a).name \o "\"")

C2_Witness ==
  /\ hook = "validationErrors"
  /\ N = 2
  /\ Unmatched = {1, 2}
  /\ Attr(1).name # Attr(2).name
  /\ Attr(1).type # Attr(2).type
  /\ Len(result.value) = 2

(***************************************************************************)
(* C3: the error of an unmatched field contains "<owner>.<field>"; with an *)
(* underlying type it names that type as the backing type, without one it  *)
(* names the declared type; the phrasing depends on nothing else.          *)
(***************************************************************************)
C3_ErrorMessage ==
  hook = "validationErrors" =>
    \A k \in 1..Len(result.value) :
      LET a == Attr(KthUnmatched(k))
          message == result.value[k]
          owner == objectType.typeName \o "." \o a.name
          backing == "encode the backing type \""
          declared == "encode the type \""
      IN  /\ Contains(message, " from " \o owner \o ". ")
          /\ a.type.underlyingType.just =>
               /\ Contains(message, backing \o a.type.underlyingType.value \o "\" ")
               /\ ~Contains(message, declared)
          /\ ~a.type.underlyingType.just =>
               /\ Contains(message, declared \o a.type.name \o "\" ")
               /\ ~Contains(message, backing)

C3_Witness ==
  /\ hook = "validationErrors"
  /\ N = 2
  /\ Unmatched = {1, 2}
  /\ Attr(1).type.underlyingType.just
  /\ ~Attr(2).type.underlyingType.just
  /\ Contains(result.value[1], "backing type \"LegacyBlob\" from Foo.")
  /\ Contains(result.value[2], "the type \"CustomOpaqueType\" from Foo.")

(***************************************************************************)
(* C4: for n supported fields the serializer body has n+2 lines (map       *)
(* allocation, the encode line of field i at position i keyed by its name, *)
(* 'return [dict copy];') and the initializer body n+3 lines (super-init   *)
(* guard, the decode line of field i at position i, indented one level,    *)
(* assigning ivar _name from the entry keyed by the same name, closing     *)
(* brace, 'return self;'); the keys written equal the keys read.           *)
(***************************************************************************)
KeysIn(lines) ==
  {name \in AttributeNames : \E j \in 1..Len(lines) : Contains(lines[j], Key(name))}

C4_BodiesKeepDeclarationOrder ==
  (hook = "instanceMethods" /\ Unmatched = {}) =>
    /\ ~result.threw
    /\ Len(SerializerCode) = N + 2
    /\ SerializerCode[1] =
         "NSMutableDictionary *dict = [[NSMutableDictionary alloc] init];"
    /\ SerializerCode[N + 2] = "return [dict copy];"
    /\ \A i \in 1..N :
         /\ StartsWith(EncodeLine(i), "dict" \o Key(Attr(i).name) \o " = ")
         /\ Contains(EncodeLine(i), "_" \o Attr(i).name)
    /\ Len(InitializerCode) = N + 3
    /\ InitializerCode[1] = "if ((self = [super init])) {"
    /\ InitializerCode[N + 2] = "}"
    /\ InitializerCode[N + 3] = "return self;"
    /\ \A i \in 1..N :
         /\ StartsWith(DecodeLine(i), "  _" \o Attr(i).name \o " = ")
         /\ Contains(DecodeLine(i), "dictionary" \o Key(Attr(i).name))
         /\ EndsWith(DecodeLine(i), ";")
    /\ KeysIn(SerializerCode) = KeysIn(InitializerCode)
    /\ KeysIn(SerializerCode) = {Attr(i).name : i \in 1..N}

C4_Witness ==
  /\ Generated
  /\ N = 2
  /\ Attr(1).name = "count"
  /\ Attr(2).name = "flag"
  /\ Len(SerializerCode) = 4
  /\ Len(InitializerCode) = 5
  /\ StartsWith(EncodeLine(1), "dict[@\"count\"] = ")
  /\ StartsWith(DecodeLine(2), "  _flag = ")

(***************************************************************************)
(* C5 as stated: for a string field the decode expression of the           *)
(* initializer substitutes an empty-string literal for an absent value and *)
(* never the null sentinel.                                                *)
(***************************************************************************)
IsString(i) == Matched(i) = "NSObject" /\ Attr(i).type.name = "NSString"

C5_DecodeDefaultsToEmptyString ==
  Generated =>
    \A i \in 1..N :
      IsString(i) =>
        /\ Contains(DecodeLine(i), " ?: @\"\"")
        /\ ~Contains(DecodeLine(i), "[NSNull null]")

(***************************************************************************)
(* C5 amended: for a string field it is the encode expression of the       *)
(* serializer that substitutes the empty-string literal for an absent      *)
(* value, never the null sentinel; the decode expression of the            *)
(* initializer carries no default substitution at all.                     *)
(***************************************************************************)
C5_EncodeDefaultsToEmptyString ==
  Generated =>
    \A i \in 1..N :
      IsString(i) =>
        /\ EndsWith(EncodeLine(i), " ?: @\"\";")
        /\ ~Contains(EncodeLine(i), "[NSNull null]")
        /\ ~Contains(DecodeLine(i), " ?: ")
        /\ ~Contains(DecodeLine(i), "[NSNull null]")

C5_Witness ==
  /\ Generated
  /\ N = 1
  /\ IsString(1)
  /\ Attr(1).name = "flag"
  /\ coding = "direct"
  /\ EncodeLine(1) = "dict[@\"flag\"] = _flag ?: @\"\";"
  /\ copyRule = "none"
  /\ DecodeLine(1) = "  _flag = dictionary[@\"flag\"];"

(***************************************************************************)
(* C6: a 64-bit unsigned field is boxed with @(...) on encode and          *)
(* extracted with an accessor that no other integer variant uses; boolean  *)
(* and the six integer variants have pairwise distinct accessors, all use  *)
(* the @(...) wrap and none gets a default substitution.                   *)
(***************************************************************************)
C6_IntegerAccessorsDistinct ==
  Generated =>
    /\ \A i \in 1..N :
         Matched(i) \in IntegerLike =>
           /\ StartsWith(EncodeLine(i), "dict" \o Key(Attr(i).name) \o " = @(")
           /\ EndsWith(EncodeLine(i), ");")
           /\ ~Contains(EncodeLine(i), " ?: ")
           /\ Contains(DecodeLine(i), "[dictionary" \o Key(Attr(i).name) \o " ")
           /\ ~Contains(DecodeLine(i), " ?: ")
           /\ Matched(i) = "uint64_t" =>
                AccessorOf(DecodeLine(i), Attr(i).name) = "unsignedLongLongValue"
           /\ Matched(i) = "BOOL" =>
                AccessorOf(DecodeLine(i), Attr(i).name) = "boolValue"
    /\ \A i, j \in 1..N :
         (Matched(i) \in IntegerLike /\ Matched(j) \in IntegerLike
            /\ Matched(i) # Matched(j)) =>
           AccessorOf(DecodeLine(i), Attr(i).name)
             # AccessorOf(DecodeLine(j), Attr(j).name)

C6_Witness ==
  /\ Generated
  /\ N = 2
  /\ Matched(1) = "uint64_t"
  /\ Matched(2) = "uint32_t"
  /\ coding = "direct"
  /\ EncodeLine(1) = "dict[@\"flag\"] = @(_flag);"
  /\ AccessorOf(DecodeLine(1), "flag") = "unsignedLongLongValue"
  /\ AccessorOf(DecodeLine(2), "count") = "unsignedIntValue"

(***************************************************************************)
(* C7: a decode line wraps the decoded expression in '[<expr> copy]'       *)
(* exactly when the should-copy helper says so for the owner's value       *)
(* semantics flag and the field; the copy is the outermost operation,      *)
(* around the unwrap and the per-type decoder; without value semantics no  *)
(* decode line contains a copy.                                            *)
(***************************************************************************)
CopyOpen(i) == "  _" \o Attr(i).name \o " = ["

CopyClose == " copy];"

IsCopyWrapped(i) ==
  StartsWith(DecodeLine(i), CopyOpen(i)) /\ EndsWith(DecodeLine(i), CopyClose)

CopiedExpression(i) ==
  SubSeq(DecodeLine(i), Len(CopyOpen(i)) + 1, Len(DecodeLine(i)) - Len(CopyClose))

C7_CopyIffHelperSaysSo ==
  Generated =>
    \A i \in 1..N :
      LET should ==
            shouldCopyIncomingValueForAttribute(
              typeSupportsValueObjectSemantics(objectType), Attr(i))
      IN  /\ IsCopyWrapped(i) <=> should
          /\ Contains(DecodeLine(i), " copy]") <=> should
          /\ should =>
               /\ ~Contains(CopiedExpression(i), " copy]")
               /\ Contains(CopiedExpression(i), "dictionary" \o Key(Attr(i).name))
               /\ coding = "converted" =>
                    /\ StartsWith(CopiedExpression(i), "DecodedValue(")
                    /\ EndsWith(CopiedExpression(i), ")")
               /\ (coding = "direct" /\ Matched(i) \in BoxedNumberTypes) =>
                    /\ StartsWith(CopiedExpression(i), "[dictionary")
                    /\ EndsWith(CopiedExpression(i), "Value]")
          /\ ~typeSupportsValueObjectSemantics(objectType) =>
               ~Contains(DecodeLine(i), "copy")

C7_Witness ==
  /\ Generated
  /\ N = 2
  /\ typeSupportsValueObjectSemantics(objectType)
  /\ copyRule = "objects"
  /\ coding = "converted"
  /\ Matched(1) = "BOOL"
  /\ IsString(2)
  /\ DecodeLine(1) = "  _flag = DecodedValue([dictionary[@\"flag\"] boolValue]);"
  /\ DecodeLine(2) = "  _count = [DecodedValue(dictionary[@\"count\"]) copy];"

(***************************************************************************)
(* C8: every hook other than instanceMethods, validationErrors and         *)
(* requiredIncludesToRun contributes nothing: list hooks return the empty  *)
(* list, fileType and nullability return Nothing, subclassingRestricted    *)
(* returns false, the two transforms return their argument; and            *)
(* requiredIncludesToRun is the single tag 'JSONCoding'.                   *)
(***************************************************************************)
ListHooks ==
  {"additionalFiles", "additionalTypes", "classMethods", "attributes",
   "forwardDeclarations", "functions", "headerComments", "implementedProtocols",
   "imports", "properties", "staticConstants", "macros"}

C8_OtherHooksAreNeutral ==
  /\ hook \in ListHooks => result = Returned(<<>>)
  /\ hook \in {"fileType", "nullability"} => result = Returned(Nothing)
  /\ hook = "subclassingRestricted" => result = Returned(FALSE)
  /\ hook \in {"transformBaseFile", "transformFileRequest"} =>
       arg.just /\ result = Returned(arg.value)
  /\ hook = "requiredIncludesToRun" => result = Returned(<<"JSONCoding">>)

C8_Witness ==
  /\ hook = "classMethods"
  /\ N = 2
  /\ Unmatched = {}
  /\ result = Returned(<<>>)

(***************************************************************************)
(* C9: the encode line of a supported field is 'dict[@"<name>"] = '        *)
(* followed by default(wrap(E)), E being the coder's expression over       *)
(* _<name>.  Object fields are not wrapped and default to a literal chosen *)
(* by name: NSString, NSArray, NSSet and NSDictionary each have their own, *)
(* pairwise distinct and different from the null sentinel, every other     *)
(* name gets the null sentinel.  Boolean, numeric and identity variants    *)
(* get no default.                                                         *)
(***************************************************************************)
EncodedIvar(i) ==
  IF coding = "direct" THEN "_" \o Attr(i).name
  ELSE "EncodedValue(_" \o Attr(i).name \o ")"

EncodeBody(i) ==
  SubSeq(EncodeLine(i), Len("dict" \o Key(Attr(i).name) \o " = ") + 1,
         Len(EncodeLine(i)) - 1)

DefaultKind(i) ==
  IF Attr(i).type.name \in {"NSString", "NSArray", "NSSet", "NSDictionary"}
    THEN Attr(i).type.name
    ELSE "other"

C9_EncodeLineShape ==
  Generated =>
    /\ \A i \in 1..N :
         /\ StartsWith(EncodeLine(i), "dict" \o Key(Attr(i).name) \o " = ")
         /\ EndsWith(EncodeLine(i), ";")
         /\ Matched(i) = "NSObject" =>
              /\ EncodeBody(i) = EncodedIvar(i) \o " ?: " \o DefaultOf(EncodeLine(i))
              /\ DefaultKind(i) = "NSString" => DefaultOf(EncodeLine(i)) = "@\"\""
              /\ DefaultKind(i) = "NSArray" => DefaultOf(EncodeLine(i)) = "@[]"
              /\ DefaultKind(i) = "NSSet" => DefaultOf(EncodeLine(i)) = "[NSSet new]"
              /\ DefaultKind(i) = "NSDictionary" => DefaultOf(EncodeLine(i)) = "@{}"
              /\ (DefaultKind(i) = "other") <=>
                   (DefaultOf(EncodeLine(i)) = "[NSNull null]")
         /\ Matched(i) \in BoxedNumberTypes =>
              EncodeBody(i) = "@(" \o EncodedIvar(i) \o ")"
         /\ Matched(i) \in IdentityVariants => EncodeBody(i) = EncodedIvar(i)
         /\ Matched(i) \in BoxedNumberTypes \cup IdentityVariants \cup {"NSObject"}
    /\ \A i, j \in 1..N :
         (Matched(i) = "NSObject" /\ Matched(j) = "NSObject"
            /\ DefaultKind(i) # DefaultKind(j)) =>
           DefaultOf(EncodeLine(i)) # DefaultOf(EncodeLine(j))

C9_Witness ==
  /\ Generated
  /\ N = 2
  /\ Attr(1).type.name = "NSDictionary"
  /\ Attr(2).type.name = "NSArray"
  /\ coding = "converted"
  /\ EncodeLine(1) = "dict[@\"flag\"] = EncodedValue(_flag) ?: @{};"
  /\ EncodeLine(2) = "dict[@\"count\"] = EncodedValue(_count) ?: @[];"

(***************************************************************************)
(* C10 as stated: among double, float, CGFloat and NSTimeInterval no two   *)
(* distinct variants have the same unwrap accessor, and none shares an     *)
(* accessor with boolean or an integer variant.                            *)
(***************************************************************************)
Accessor(i) == AccessorOf(DecodeLine(i), Attr(i).name)

C10_FloatAccessorsPairwiseDistinct ==
  Generated =>
    \A i, j \in 1..N :
      /\ (Matched(i) \in FloatingPoint /\ Matched(j) \in FloatingPoint
            /\ Matched(i) # Matched(j)) => Accessor(i) # Accessor(j)
      /\ (Matched(i) \in FloatingPoint /\ Matched(j) \in IntegerLike) =>
           Accessor(i) # Accessor(j)

(***************************************************************************)
(* C10 amended: double and NSTimeInterval are both read with doubleValue,  *)
(* float and CGFloat are both read with floatValue; the two accessors are  *)
(* distinct and no floating-point variant shares its accessor with boolean *)
(* or an integer variant.                                                  *)
(***************************************************************************)
C10_FloatAccessorsByStorageClass ==
  Generated =>
    \A i, j \in 1..N :
      /\ Matched(i) \in {"double", "NSTimeInterval"} => Accessor(i) = "doubleValue"
      /\ Matched(i) \in {"float", "CGFloat"} => Accessor(i) = "floatValue"
      /\ (Matched(i) \in {"double", "NSTimeInterval"}
            /\ Matched(j) \in {"float", "CGFloat"}) => Accessor(i) # Accessor(j)
      /\ (Matched(i) \in FloatingPoint /\ Matched(j) \in IntegerLike) =>
           Accessor(i) # Accessor(j)

C10_Witness ==
  /\ Generated
  /\ N = 2
  /\ Matched(1) = "CGFloat"
  /\ Matched(2) = "float"
  /\ Accessor(1) = "floatValue"
  /\ Accessor(2) = "floatValue"

=============================================================================
